---------------------------- MODULE Spec2Model ----------------------------
(***************************************************************************)
(* Model of mozilla_django_oidc/middleware.py: the SessionRefresh and      *)
(* RefreshOIDCToken middlewares.                                           *)
(*                                                                         *)
(* Text (paths, urls, parameter values) is a sequence of atoms: an atom is *)
(* either one reserved character ("/", ":", "&", "=", "+", "%", "?", " ")  *)
(* or a run of unreserved characters ("openid", "code", ...).              *)
(* A session is a dictionary: a function from the keys it holds to values. *)
(***************************************************************************)
EXTENDS Integers, Sequences, FiniteSets, TLC

\* Largest wall-clock value time.time() returns in the model.
MaxTime == 1
\* Largest value of the two *_EXPIRY_SECONDS settings.
MaxSecs == 1
\* Number of strings the random generator hands out in one behaviour.
MaxDraws == 2

Workers == {1, 2}

----------------------------------------------------------------------------
(* Text, urlencode and its inverse *)

Reserved == {"/", ":", "&", "=", "+", "%", "?", " "}

\* The two hexadecimal digits quote() writes for a reserved character.
HexOf(c) ==
    CASE c = "/" -> <<"2", "F">>
      [] c = ":" -> <<"3", "A">>
      [] c = "&" -> <<"2", "6">>
      [] c = "=" -> <<"3", "D">>
      [] c = "+" -> <<"2", "B">>
      [] c = "%" -> <<"2", "5">>
      [] c = "?" -> <<"3", "F">>
      [] c = " " -> <<"2", "0">>

\* urllib's quote_plus on one atom: a space becomes "+", any other reserved
\* character becomes %XX, unreserved text is kept.
quote_plus_atom(c) ==
    IF c = " " THEN <<"+">>
    ELSE IF c \in Reserved THEN <<"%">> \o HexOf(c)
    ELSE <<c>>

RECURSIVE quote_plus(_)
quote_plus(s) ==
    IF s = <<>> THEN <<>> ELSE quote_plus_atom(Head(s)) \o quote_plus(Tail(s))

\* urlencode(params): key=value pairs, both quoted, joined by "&", in the
\* dictionary's (insertion) order.  params is a sequence of <<key, value>>.
RECURSIVE urlencode(_)
urlencode(params) ==
    IF params = <<>> THEN <<>>
    ELSE LET kv == Head(params)
             one == quote_plus(kv[1]) \o <<"=">> \o quote_plus(kv[2])
         IN  IF Tail(params) = <<>> THEN one
             ELSE one \o <<"&">> \o urlencode(Tail(params))

\* The reserved character two hexadecimal digits stand for.
UnHex(h) == CHOOSE c \in Reserved : HexOf(c) = h

\* unquote_plus: "+" becomes a space, %XX the character it stands for.
RECURSIVE unquote_plus(_)
unquote_plus(s) ==
    IF s = <<>> THEN <<>>
    ELSE IF Head(s) = "+" THEN <<" ">> \o unquote_plus(Tail(s))
    ELSE IF Head(s) = "%" /\ Len(s) >= 3
         THEN <<UnHex(<<s[2], s[3]>>)>> \o unquote_plus(SubSeq(s, 4, Len(s)))
    ELSE <<Head(s)>> \o unquote_plus(Tail(s))

\* Index of the first occurrence of atom c in s, 0 when there is none.
IndexOf(s, c) ==
    IF \E i \in 1..Len(s) : s[i] = c
    THEN CHOOSE i \in 1..Len(s) : s[i] = c /\ \A j \in 1..(i - 1) : s[j] # c
    ELSE 0

\* s split at every atom c.
RECURSIVE SplitOn(_, _)
SplitOn(s, c) ==
    LET i == IndexOf(s, c)
    IN  IF i = 0 THEN <<s>>
        ELSE <<SubSeq(s, 1, i - 1)>> \o SplitOn(SubSeq(s, i + 1, Len(s)), c)

\* parse_qsl: the query string read back into <<key, value>> pairs.
parse_qsl(q) ==
    LET parts == SplitOn(q, "&")
        pair(p) == LET i == IndexOf(p, "=")
                   IN  IF i = 0 THEN <<unquote_plus(p), <<>>>>
                       ELSE <<unquote_plus(SubSeq(p, 1, i - 1)),
                              unquote_plus(SubSeq(p, i + 1, Len(p)))>>
    IN  [k \in 1..Len(parts) |-> pair(parts[k])]

\* The part of a url after its first "?".
QueryOf(url) ==
    LET i == IndexOf(url, "?")
    IN  IF i = 0 THEN <<>> ELSE SubSeq(url, i + 1, Len(url))

\* The part of a url before its first "?".
BaseOf(url) ==
    LET i == IndexOf(url, "?")
    IN  IF i = 0 THEN url ELSE SubSeq(url, 1, i - 1)

\* The values a parsed query string holds for key k.
ValuesOf(pairs, k) == {pairs[i][2] : i \in {j \in 1..Len(pairs) : pairs[j][1] = k}}

----------------------------------------------------------------------------
(* Dictionaries, settings, the URL resolver *)

\* Python's None.
NoneVal == "<None>"

\* dict.get(k, default)
Get(d, k, default) == IF k \in DOMAIN d THEN d[k] ELSE default

\* d[k] = v
Put(d, k, v) == [x \in (DOMAIN d) \cup {k} |-> IF x = k THEN v ELSE d[x]]

EmptyDict == [x \in {} |-> NoneVal]

\* Python truth value of a string-or-None value.
Falsy(v) == v = NoneVal \/ v = ""

\* import_from_settings(attr, default) / SessionRefresh.get_settings
get_settings(cfg, attr, default) == Get(cfg, attr, default)

BACKEND_SESSION_KEY == "_auth_user_backend"

OIDCAuthenticationBackend == "mozilla_django_oidc.auth.OIDCAuthenticationBackend"

\* A project's own backend class deriving from OIDCAuthenticationBackend.
CustomOIDCBackend == "myapp.auth.CustomOIDCBackend"

ModelBackend == "django.contrib.auth.backends.ModelBackend"

Backends == {OIDCAuthenticationBackend, CustomOIDCBackend, ModelBackend}

\* issubclass(import_string(path), base) over the classes of the deployment.
issubclass(path, base) ==
    \/ path = base
    \/ path = CustomOIDCBackend /\ base = OIDCAuthenticationBackend

\* The deployment's routes.
DashboardPath == <<"/", "dashboard", "/">>

HealthPath == <<"/", "health", "/">>

AboutPath == <<"/", "about", "/">>

InitPath == <<"/", "oidc", "/", "authenticate", "/">>

CallbackPath == <<"/", "oidc", "/", "callback", "/">>

LogoutPath == <<"/", "oidc", "/", "logout", "/">>

\* django.urls.reverse: view name -> path.
reverse(url) ==
    CASE url = <<"oidc_authentication_init">> -> InitPath
      [] url = <<"oidc_authentication_callback">> -> CallbackPath
      [] url = <<"oidc_logout">> -> LogoutPath
      [] url = <<"about">> -> AboutPath

Range(s) == {s[i] : i \in 1..Len(s)}

\* url.startswith('/')
startswith_slash(url) == url # <<>> /\ Head(url) = "/"

\* Mutant: the three urls of the library itself are not appended.
exempt_urls_settings_only(cfg) ==
    {IF startswith_slash(url) THEN url ELSE reverse(url) :
        url \in Range(get_settings(cfg, "OIDC_EXEMPT_URLS", <<>>))}

\* SessionRefresh.exempt_urls
exempt_urls(cfg) ==
    LET urls == get_settings(cfg, "OIDC_EXEMPT_URLS", <<>>)
                \o << <<"oidc_authentication_init">>,
                      <<"oidc_authentication_callback">>,
                      <<"oidc_logout">> >>
    IN  {IF startswith_slash(url) THEN url ELSE reverse(url) : url \in Range(urls)}

----------------------------------------------------------------------------
(* The running handler.                                                    *)
(* A context c is the handler's view of the world while it runs:           *)
(*   session    request.session                                            *)
(*   user_auth  request.user.is_authenticated                              *)
(*   clock      the last value time.time() returned                        *)
(*   ticks      the values the next calls of time.time() return            *)
(*   rng        the number of strings get_random_string has handed out     *)
(*   events     what the handler has done so far, in order                 *)
(*   result     what it returned or raised ("running" until then)          *)

Ev(op, t, v) == [op |-> op, t |-> t, v |-> v]

Log(c, op, t, v) == [c EXCEPT !.events = Append(@, Ev(op, t, v))]

\* time.time(): the next wall-clock value.
time_time(c) ==
    Log([c EXCEPT !.clock = Head(c.ticks), !.ticks = Tail(c.ticks)],
        "time", Head(c.ticks), FALSE)

\* The n-th string of django.utils.crypto.get_random_string.
RandomString(n) == <<ToString(n)>>

\* get_random_string(size): a string not handed out before.
get_random_string(c) == [c EXCEPT !.rng = @ + 1]

\* What a handler returns or raises.
Response(kind, status, url) ==
    [kind |-> kind, status |-> status, location |-> IF status = 302 THEN url ELSE <<>>,
     body_refresh_url |-> IF status = 403 THEN url ELSE <<>>,
     header_refresh_url |-> IF status = 403 THEN url ELSE <<>>]

\* return (None): the request goes on to the view.
ReturnNone == Response("None", 0, <<>>)

\* HttpResponseRedirect(redirect_url)
HttpResponseRedirect(redirect_url) == Response("HttpResponseRedirect", 302, redirect_url)

\* JsonResponse({'refresh_url': redirect_url}, status=403) with the header set
JsonResponse403(redirect_url) == Response("JsonResponse", 403, redirect_url)

\* raise exc
Raised(exc) == Response(exc, 0, <<>>)

Running == Response("running", 0, <<>>)

\* The handler blocked in requests.post.
Posting == Response("posting", 0, <<>>)

Finish(c, r) == [c EXCEPT !.result = r]

\* raise exc: the exception leaves process_request.
Raise(c, exc) == Finish(Log(c, "raise", 0, FALSE), Raised(exc))

\* The verdict of the last call logged in c.
Ret(c) == c.events[Len(c.events)].v

----------------------------------------------------------------------------
(* SessionRefresh *)

\* Mutant: the recorded backend must be the OIDC backend itself.
is_oidc_enabled_exact_class(session) ==
    LET backend_session == Get(session, BACKEND_SESSION_KEY, NoneVal)
    IN  IF ~Falsy(backend_session)
        THEN backend_session = OIDCAuthenticationBackend
        ELSE TRUE

\* is_oidc_enabled of is_refreshable_url
is_oidc_enabled(session) ==
    LET backend_session == Get(session, BACKEND_SESSION_KEY, NoneVal)
    IN  IF ~Falsy(backend_session)
        THEN issubclass(backend_session, OIDCAuthenticationBackend)
        ELSE TRUE

\* SessionRefresh.is_refreshable_url
is_refreshable_url(cfg, request, c, get_only) ==
    /\ (~get_only \/ request.method = "GET")
    /\ c.user_auth
    /\ is_oidc_enabled(c.session)
    /\ request.path \notin exempt_urls(cfg)

\* A handler's call of is_refreshable_url; the verdict is the v of the event
\* it logs, t is 1 for get_only=True and 0 for get_only=False.
call_is_refreshable_url(cfg, request, c, get_only) ==
    Log(c, "is_refreshable_url", IF get_only THEN 1 ELSE 0,
        is_refreshable_url(cfg, request, c, get_only))

\* Mutant: an id token expiring right now still counts as valid.
id_token_still_valid_at_expiry(expiration, now) == expiration >= now

\* The comparison of is_expired: the id_token is still valid.
id_token_still_valid(expiration, now) == expiration > now

\* SessionRefresh.is_expired; the verdict is the v of the event it logs.
is_expired(c) ==
    LET expiration == Get(c.session, "oidc_id_token_expiration", 0)
        c1 == time_time(c)
        now == c1.clock
    IN  Log(c1, "is_expired", now, ~id_token_still_valid(expiration, now))

\* Mutant: the path without its query string.
get_full_path_without_query(request) == request.path

\* request.get_full_path()
get_full_path(request) ==
    request.path \o (IF request.query # <<>> THEN <<"?">> \o request.query ELSE <<>>)

\* utils.absolutify(request, path)
absolutify(request, path) == <<"http", ":", "/", "/", "testserver">> \o path

\* utils.add_state_and_nonce_to_session(request, state, params): the state,
\* with the nonce of params (None without one), is kept in the session.
add_state_and_nonce_to_session(c, state, params) ==
    LET nonces == ValuesOf(params, <<"nonce">>)
        nonce == IF nonces = {} THEN <<NoneVal>> ELSE CHOOSE n \in nonces : TRUE
        states == Get(c.session, "oidc_states", EmptyDict)
    IN  Log([c EXCEPT !.session = Put(@, "oidc_states", Put(states, state, nonce))],
            "add_state_and_nonce_to_session", 0, FALSE)

\* Mutant: XHR requests are redirected like any other.
reauth_response_always_redirect(request, redirect_url) ==
    HttpResponseRedirect(redirect_url)

\* The response of the silent re-authentication: a 403 for an XHR request,
\* a redirect otherwise.
reauth_response(request, redirect_url) ==
    IF request.is_ajax THEN JsonResponse403(redirect_url)
    ELSE HttpResponseRedirect(redirect_url)

\* The parameters of the authorization request, before the nonce.
auth_params(cfg, request, state) ==
    << <<<<"response_type">>, <<"code">>>>,
       <<<<"client_id">>, get_settings(cfg, "OIDC_RP_CLIENT_ID", <<>>)>>,
       <<<<"redirect_uri">>,
         absolutify(request,
                    reverse(get_settings(cfg, "OIDC_AUTHENTICATION_CALLBACK_URL",
                                         <<"oidc_authentication_callback">>)))>>,
       <<<<"state">>, state>>,
       <<<<"scope">>, get_settings(cfg, "OIDC_RP_SCOPES", <<"openid", " ", "email">>)>>,
       <<<<"prompt">>, <<"none">>>> >>

\* redirect_url = '{url}?{query}'.format(...)
redirect_url_of(auth_url, params) == auth_url \o <<"?">> \o urlencode(params)

\* SessionRefresh.process_request, from "id token has expired" on.
silent_reauth(cfg, request, c) ==
    LET auth_url == get_settings(cfg, "OIDC_OP_AUTHORIZATION_ENDPOINT", <<>>)
        c1 == get_random_string(c)
        state == RandomString(c1.rng)
        params0 == auth_params(cfg, request, state)
        use_nonce == get_settings(cfg, "OIDC_USE_NONCE", TRUE)
        c2 == IF use_nonce THEN get_random_string(c1) ELSE c1
        params == IF use_nonce
                  THEN Append(params0, <<<<"nonce">>, RandomString(c2.rng)>>)
                  ELSE params0
        c3 == add_state_and_nonce_to_session(c2, state, params)
        c4 == [c3 EXCEPT !.session = Put(@, "oidc_login_next", get_full_path(request))]
    IN  Finish(c4, reauth_response(request, redirect_url_of(auth_url, params)))

\* SessionRefresh.process_request
SessionRefresh_process_request(cfg, request, c) ==
    LET c0 == call_is_refreshable_url(cfg, request, c, TRUE)
        c1 == is_expired(c0)
    IN  IF ~Ret(c0) THEN Finish(c0, ReturnNone)
        ELSE IF ~Ret(c1) THEN Finish(c1, ReturnNone)
        ELSE silent_reauth(cfg, request, c1)

----------------------------------------------------------------------------
(* RefreshOIDCToken *)

\* Mutant: a refresh token at its deadline still counts as valid.
refresh_token_still_valid_at_deadline(refresh_token_expire, now) ==
    refresh_token_expire >= now

\* The comparison of _is_refresh_token_expired: the refresh token is still valid.
refresh_token_still_valid(refresh_token_expire, now) == refresh_token_expire > now

\* Mutant: the deadline is counted from the id token's expiration, not from
\* the time the tokens were issued.
_is_refresh_token_expired_from_expiration(cfg, c) ==
    LET refresh_toke_expire_time ==
            get_settings(cfg, "OIDC_RENEW_REFRESH_TOKEN_EXPIRY_SECONDS", 0)
        refresh_token_expire ==
            Get(c.session, "oidc_id_token_expiration", 0) + refresh_toke_expire_time
        c1 == time_time(c)
        now == c1.clock
    IN  IF refresh_toke_expire_time = 0
        THEN Log(c, "_is_refresh_token_expired", -1, FALSE)
        ELSE Log(c1, "_is_refresh_token_expired", now,
                 ~refresh_token_still_valid(refresh_token_expire, now))

\* RefreshOIDCToken._is_refresh_token_expired; the verdict is the v of the
\* event it logs (t is -1 when it returned without reading the clock).
_is_refresh_token_expired(cfg, c) ==
    LET refresh_toke_expire_time ==
            get_settings(cfg, "OIDC_RENEW_REFRESH_TOKEN_EXPIRY_SECONDS", 0)
        refresh_token_expire ==
            Get(c.session, "oidc_id_token_expiration", 0)
            - get_settings(cfg, "OIDC_RENEW_ID_TOKEN_EXPIRY_SECONDS", 0)
            + refresh_toke_expire_time
        c1 == time_time(c)
        now == c1.clock
    IN  IF refresh_toke_expire_time = 0
        THEN Log(c, "_is_refresh_token_expired", -1, FALSE)
        ELSE Log(c1, "_is_refresh_token_expired", now,
                 ~refresh_token_still_valid(refresh_token_expire, now))

\* django.contrib.auth.logout: the session is flushed and request.user
\* becomes the anonymous user.
django_logout(c) ==
    Log([c EXCEPT !.session = EmptyDict, !.user_auth = FALSE], "logout", 0, FALSE)

\* request.method.upper()
upper(method) ==
    CASE method = "get" -> "GET"
      [] method = "post" -> "POST"
      [] OTHER -> method

\* Mutant: the method is not looked at.
renew_by_reauth_any_method(cfg, request) ==
    get_settings(cfg, "OIDC_RENEW_REFRESH_TOKEN", FALSE)

\* Mutant: the method is compared without upper().
renew_by_reauth_lowercase_get(cfg, request) ==
    get_settings(cfg, "OIDC_RENEW_REFRESH_TOKEN", FALSE) /\ request.method = "get"

\* The condition of _handle_refresh_token_expire for the silent
\* re-authentication.
renew_by_reauth(cfg, request) ==
    get_settings(cfg, "OIDC_RENEW_REFRESH_TOKEN", FALSE) /\ upper(request.method) = "GET"

\* RefreshOIDCToken._handle_refresh_token_expire
_handle_refresh_token_expire(cfg, request, c) ==
    LET c0 == Log(c, "_handle_refresh_token_expire", 0, FALSE)
    IN  IF renew_by_reauth(cfg, request)
        THEN SessionRefresh_process_request(cfg, request, c0)
        ELSE Raise(django_logout(c0), "PermissionDenied")

\* auth.store_expiration_times(session)
store_expiration_times(cfg, c) ==
    LET c1 == time_time(c)
        expiration_interval == get_settings(cfg, "OIDC_RENEW_ID_TOKEN_EXPIRY_SECONDS", 0)
    IN  Log([c1 EXCEPT !.session =
                 Put(@, "oidc_id_token_expiration", c1.clock + expiration_interval)],
            "store_expiration_times", c1.clock, FALSE)

\* auth.store_tokens(session, access_token, id_token, refresh_token)
store_tokens(c, access_token, id_token, refresh_token) ==
    Log([c EXCEPT !.session =
             Put(Put(Put(@, "oidc_access_token", access_token),
                     "oidc_id_token", id_token),
                 "oidc_refresh_token", refresh_token)],
        "store_tokens", 0, FALSE)

\* Mutant: only None counts as no refresh token.
refresh_token_missing_only_none(refresh_token) == refresh_token = NoneVal

\* The check of the stored refresh token: none is stored.
refresh_token_missing(refresh_token) == Falsy(refresh_token)

\* RefreshOIDCToken.process_request up to the call of requests.post.
RefreshOIDCToken_process_request(cfg, request, c) ==
    LET c0 == call_is_refreshable_url(cfg, request, c, FALSE)
        c1 == is_expired(c0)
        refresh_token == Get(c1.session, "oidc_refresh_token", NoneVal)
        c2 == _is_refresh_token_expired(cfg, c1)
    IN  IF ~Ret(c0) THEN Finish(c0, ReturnNone)
        ELSE IF ~Ret(c1) THEN Finish(c1, ReturnNone)
        ELSE IF Ret(c2) THEN _handle_refresh_token_expire(cfg, request, c2)
        ELSE IF refresh_token_missing(refresh_token)
             THEN Raise(c2, "ImproperlyConfigured")
        ELSE Finish(Log([c2 EXCEPT !.payload = refresh_token],
                        "requests.post", 0, FALSE),
                    Posting)

\* The test of the answer's status.
grant_rejected(status_code) == status_code # 200

\* Mutant: the id token and the access token change places.
after_post_tokens_swapped(cfg, request, c, status_code, token_info) ==
    IF grant_rejected(status_code)
    THEN _handle_refresh_token_expire(cfg, request, c)
    ELSE LET id_token == Get(token_info, "id_token", NoneVal)
             access_token == Get(token_info, "access_token", NoneVal)
             refresh_token == Get(token_info, "refresh_token", NoneVal)
             c1 == store_expiration_times(cfg, c)
         IN  Finish(store_tokens(c1, id_token, access_token, refresh_token),
                    ReturnNone)

\* Mutant: the new tokens are stored, the expiration time is not.
after_post_tokens_only(cfg, request, c, status_code, token_info) ==
    IF grant_rejected(status_code)
    THEN _handle_refresh_token_expire(cfg, request, c)
    ELSE LET id_token == Get(token_info, "id_token", NoneVal)
             access_token == Get(token_info, "access_token", NoneVal)
             refresh_token == Get(token_info, "refresh_token", NoneVal)
         IN  Finish(store_tokens(c, access_token, id_token, refresh_token),
                    ReturnNone)

\* Mutant: a rejected grant is tried once more before expiry is handled.
after_post_retries(cfg, request, c, status_code, token_info) ==
    IF grant_rejected(status_code)
    THEN _handle_refresh_token_expire(cfg, request,
                                      Log(c, "requests.post", 0, FALSE))
    ELSE LET id_token == Get(token_info, "id_token", NoneVal)
             access_token == Get(token_info, "access_token", NoneVal)
             refresh_token == Get(token_info, "refresh_token", NoneVal)
             c1 == store_expiration_times(cfg, c)
         IN  Finish(store_tokens(c1, access_token, id_token, refresh_token),
                    ReturnNone)

\* Mutant: the answer is stored before its status is looked at.
after_post_stores_before_status(cfg, request, c, status_code, token_info) ==
    LET id_token == Get(token_info, "id_token", NoneVal)
        access_token == Get(token_info, "access_token", NoneVal)
        refresh_token == Get(token_info, "refresh_token", NoneVal)
        c1 == store_tokens(store_expiration_times(cfg, c),
                           access_token, id_token, refresh_token)
    IN  IF grant_rejected(status_code)
        THEN _handle_refresh_token_expire(cfg, request, c1)
        ELSE Finish(c1, ReturnNone)

\* RefreshOIDCToken.process_request from the answer of requests.post on.
after_post(cfg, request, c, status_code, token_info) ==
    IF grant_rejected(status_code)
    THEN _handle_refresh_token_expire(cfg, request, c)
    ELSE LET id_token == Get(token_info, "id_token", NoneVal)
             access_token == Get(token_info, "access_token", NoneVal)
             refresh_token == Get(token_info, "refresh_token", NoneVal)
             c1 == store_expiration_times(cfg, c)
         IN  Finish(store_tokens(c1, access_token, id_token, refresh_token),
                    ReturnNone)

\* requests.post raises (connection error, timeout): nothing catches it.
post_raises(c) == Raise(c, "RequestException")

----------------------------------------------------------------------------
(* The state *)

VARIABLES
    settings,   \* django.conf.settings, fixed for the life of the process
    store,      \* the session as the session backend holds it
    clock,      \* the last wall-clock value any call of time.time() returned
    rng,        \* the number of random strings handed out so far
    h           \* per worker: the request it handles and how far it got

vars == <<settings, store, clock, rng, h>>

\* A dictionary holding key k with one of vals, or not holding it.
Optional(k, vals) == {EmptyDict} \cup {Put(EmptyDict, k, v) : v \in vals}

\* A client id with characters urlencode has to quote.
ClientId == <<"my", " ", "app", "&", "co", "=", "1">>

ExemptUrls == <<HealthPath, <<"about">>>>

AuthorizationEndpoint == <<"https", ":", "/", "/", "op", "/", "authorize">>

\* The required settings, and the chosen values of those the eligibility
\* filter and the authorization url read.
BaseSettings(exempt) ==
    [OIDC_OP_AUTHORIZATION_ENDPOINT |-> AuthorizationEndpoint,
     OIDC_OP_TOKEN_ENDPOINT |-> <<"https", ":", "/", "/", "op", "/", "token">>,
     OIDC_RP_CLIENT_ID |-> ClientId,
     OIDC_RP_CLIENT_SECRET |-> <<"secret">>] @@ exempt

\* The settings a deployment may run with: each optional setting of the
\* refresh logic is set or left to its default.
Settings ==
    {BaseSettings(Put(EmptyDict, "OIDC_EXEMPT_URLS", ExemptUrls))
       @@ Put(EmptyDict, "OIDC_RENEW_ID_TOKEN_EXPIRY_SECONDS", idsecs) @@ a @@ b @@ d :
        idsecs \in 0..MaxSecs,
        a \in Optional("OIDC_USE_NONCE", {FALSE}),
        b \in Optional("OIDC_RENEW_REFRESH_TOKEN", {TRUE}),
        d \in Optional("OIDC_RENEW_REFRESH_TOKEN_EXPIRY_SECONDS", 0..MaxSecs)}

\* The settings of the specification of the eligibility filter: the exempt
\* list is set or not.
FilterSettings ==
    {BaseSettings(e) @@ [OIDC_RENEW_ID_TOKEN_EXPIRY_SECONDS |-> 1,
                         OIDC_RENEW_REFRESH_TOKEN |-> TRUE] :
        e \in Optional("OIDC_EXEMPT_URLS", {ExemptUrls})}

StoredTokens ==
    [oidc_access_token |-> "at0", oidc_id_token |-> "id0", oidc_refresh_token |-> "rt0"]

\* The sessions a first request may find: logged in through the OIDC backend
\* or with no backend recorded, with or without an id token expiration, with
\* or without stored tokens.
Sessions ==
    {a @@ b @@ t :
        a \in Optional(BACKEND_SESSION_KEY, {OIDCAuthenticationBackend}),
        b \in Optional("oidc_id_token_expiration", 0..MaxTime),
        t \in {EmptyDict, [StoredTokens EXCEPT !.oidc_refresh_token = ""],
               StoredTokens}}

\* The sessions of the specification of the eligibility filter: every backend.
FilterSessions ==
    {a @@ b @@ StoredTokens :
        a \in Optional(BACKEND_SESSION_KEY, Backends),
        b \in Optional("oidc_id_token_expiration", 0..MaxTime)}

Methods == {"GET", "POST"}

\* The requests to <<path, query string>> targets.
RequestsTo(targets) ==
    {[method |-> m, path |-> t[1], query |-> t[2], is_ajax |-> x, user_auth |-> u] :
        m \in Methods, t \in targets, x \in BOOLEAN, u \in BOOLEAN}

\* The requests of a logged-in user to a page of the site, page loads of
\* anonymous users, and the provider's redirect back to the callback.
Requests ==
    {r \in RequestsTo({<<DashboardPath, <<"page", "=", "2">>>>}) :
        r.user_auth \/ ~r.is_ajax}
    \cup {r \in RequestsTo({<<CallbackPath, <<"code", "=", "x">>>>}) :
              r.user_auth /\ ~r.is_ajax}

FilterRequests ==
    RequestsTo({<<DashboardPath, <<>>>>, <<InitPath, <<>>>>,
                <<CallbackPath, <<"code", "=", "x">>>>, <<LogoutPath, <<>>>>,
                <<HealthPath, <<>>>>, <<AboutPath, <<>>>>})

NoRequest ==
    [method |-> "", path |-> <<>>, query |-> <<>>, is_ajax |-> FALSE, user_auth |-> FALSE]

\* The answers of the token endpoint with status 200: the provider rotates
\* the refresh token or leaves it out.
TokenBodies ==
    {[id_token |-> "id1", access_token |-> "at1", refresh_token |-> "rt1"],
     [id_token |-> "id1", access_token |-> "at1"]}

RejectStatuses == {400, 503}

\* The body of an answer that rejects the grant.
RejectBody == [error |-> "invalid_grant"]

\* n wall-clock values, none before time `from`, none before its predecessor.
Ticks(from, n) ==
    {s \in [1..n -> from..MaxTime] :
        \A i \in 1..(n - 1) : s[i] <= s[i + 1]}

\* The values time.time() may return to a handler that reads the clock at
\* most n times, or not at all when the request is not refreshable.
TicksFor(request, get_only, n) ==
    IF is_refreshable_url(settings, request,
                          [session |-> store, user_auth |-> request.user_auth], get_only)
    THEN Ticks(clock, n)
    ELSE {<<>>}

Idle ==
    [mw |-> "", request |-> NoRequest, session0 |-> EmptyDict, session |-> EmptyDict,
     user_auth |-> FALSE, events |-> <<>>, payload |-> NoneVal,
     status_code |-> 0, token_info |-> EmptyDict, result |-> Running]

\* The context a handler starts in.
Start(request, ticks) ==
    [session |-> store, user_auth |-> request.user_auth, clock |-> clock,
     ticks |-> ticks, rng |-> rng, events |-> <<>>, payload |-> NoneVal,
     result |-> Running]

\* The context a handler blocked in requests.post goes on in.
Resume(w, ticks) ==
    [session |-> h[w].session, user_auth |-> h[w].user_auth, clock |-> clock,
     ticks |-> ticks, rng |-> rng, events |-> h[w].events, payload |-> h[w].payload,
     result |-> Running]

\* The handler of worker w got to context c.
Record(w, mw, request, session0, status_code, token_info, c) ==
    /\ c.rng <= MaxDraws
    \* values the handler did not read are not told apart
    /\ \A i \in 1..Len(c.ticks) : c.ticks[i] = c.clock
    /\ h' = [h EXCEPT ![w] =
                [mw |-> mw, request |-> request, session0 |-> session0,
                 session |-> c.session, user_auth |-> c.user_auth,
                 events |-> c.events, payload |-> c.payload,
                 status_code |-> status_code, token_info |-> token_info,
                 result |-> c.result]]
    /\ clock' = c.clock
    /\ rng' = c.rng
    \* the session is saved when the handler is done and has changed it
    /\ store' = IF c.result = Posting \/ c.session = session0 THEN store ELSE c.session
    /\ UNCHANGED settings

Init ==
    /\ settings \in Settings
    /\ store \in Sessions
    /\ clock = 0
    /\ rng = 0
    /\ h = [w \in Workers |-> Idle]

\* Mutant: a worker takes no request of the session while a refresh-token
\* grant of the session is in flight.
Free_when_no_grant_in_flight(w) == \A w2 \in Workers : h[w2].result # Posting

\* Worker w can take a request: it is not blocked in requests.post.  Nothing
\* in process_request waits for another worker.
Free(w) == h[w].result # Posting

\* A request reaches the SessionRefresh middleware.
SessionRefreshRequest(w, requests) ==
    /\ Free(w)
    /\ \E request \in requests : \E ticks \in TicksFor(request, TRUE, 1) :
          Record(w, "SessionRefresh", request, store, 0, EmptyDict,
                 SessionRefresh_process_request(settings, request, Start(request, ticks)))

\* A request reaches the RefreshOIDCToken middleware.
RefreshOIDCTokenRequest(w, requests) ==
    /\ Free(w)
    /\ \E request \in requests : \E ticks \in TicksFor(request, FALSE, 3) :
          Record(w, "RefreshOIDCToken", request, store, 0, EmptyDict,
                 RefreshOIDCToken_process_request(settings, request, Start(request, ticks)))

\* The token endpoint answers 200 with a token set.
TokenEndpointGrants(w) ==
    /\ h[w].result = Posting
    /\ \E token_info \in TokenBodies, ticks \in Ticks(clock, 1) :
          Record(w, h[w].mw, h[w].request, h[w].session0, 200, token_info,
                 after_post(settings, h[w].request, Resume(w, ticks), 200, token_info))

\* The token endpoint answers with another status.
TokenEndpointRejects(w) ==
    /\ h[w].result = Posting
    /\ \E status_code \in RejectStatuses, ticks \in Ticks(clock, 1) :
          Record(w, h[w].mw, h[w].request, h[w].session0, status_code, RejectBody,
                 after_post(settings, h[w].request, Resume(w, ticks), status_code, RejectBody))

\* The token endpoint cannot be reached, or does not answer in time.
TokenEndpointUnreachable(w) ==
    /\ h[w].result = Posting
    /\ Record(w, h[w].mw, h[w].request, h[w].session0, 0, EmptyDict,
              post_raises(Resume(w, <<>>)))

Step(w, requests) ==
    \/ SessionRefreshRequest(w, requests)
    \/ RefreshOIDCTokenRequest(w, requests)
    \/ TokenEndpointGrants(w)
    \/ TokenEndpointRejects(w)
    \/ TokenEndpointUnreachable(w)

\* Requests are handled one at a time.
Next == Step(1, Requests)

Spec == Init /\ [][Next]_vars

\* The specification of the eligibility filter: every kind of request, path
\* and backend, under settings with and without an exempt list.
FilterInit ==
    /\ settings \in FilterSettings
    /\ store \in FilterSessions
    /\ clock = 0
    /\ rng = 0
    /\ h = [w \in Workers |-> Idle]

FilterNext == Step(1, FilterRequests)

FilterSpec == FilterInit /\ [][FilterNext]_vars

\* The settings of the specification of concurrent requests: the silent
\* re-authentication without nonce, the fallback off, no life time for the
\* refresh token.
ConcurrentSettings ==
    {BaseSettings(Put(EmptyDict, "OIDC_EXEMPT_URLS", ExemptUrls))
       @@ [OIDC_RENEW_ID_TOKEN_EXPIRY_SECONDS |-> 1, OIDC_USE_NONCE |-> FALSE]}

\* One session of a user logged in through the OIDC backend.
ConcurrentSessions ==
    {Put(EmptyDict, BACKEND_SESSION_KEY, OIDCAuthenticationBackend) @@ b @@ StoredTokens :
        b \in {Put(EmptyDict, "oidc_id_token_expiration", 0)}}

\* Page loads of the logged-in user.
ConcurrentRequests ==
    {r \in RequestsTo({<<DashboardPath, <<>>>>}) :
        r.method = "GET" /\ r.user_auth /\ ~r.is_ajax}

ConcurrentInit ==
    /\ settings \in ConcurrentSettings
    /\ store \in ConcurrentSessions
    /\ clock = 0
    /\ rng = 0
    /\ h = [w \in Workers |-> Idle]

\* Each worker of the server takes requests of the session, at any time.
ConcurrentNext == \E w \in Workers : Step(w, ConcurrentRequests)

ConcurrentSpec == ConcurrentInit /\ [][ConcurrentNext]_vars

----------------------------------------------------------------------------
(* What the properties speak of *)

\* Worker w has handled a request to its end.
Done(w) == h[w].mw # "" /\ h[w].result # Posting

\* Worker w handles or has handled a request.
Handling(w) == h[w].mw # ""

\* The events of worker w's request with operation op.
EventsOf(w, op) == {i \in 1..Len(h[w].events) : h[w].events[i].op = op}

Did(w, op) == EventsOf(w, op) # {}

\* oidc_id_token_expiration of the session the request came with, 0 when the
\* key is absent.
Expiration0(w) ==
    IF "oidc_id_token_expiration" \in DOMAIN h[w].session0
    THEN h[w].session0["oidc_id_token_expiration"]
    ELSE 0

\* The exempt set as the specification describes it: the configured urls,
\* resolved, and the paths of the three views of the library.
ExemptSet ==
    (IF "OIDC_EXEMPT_URLS" \in DOMAIN settings THEN {HealthPath, AboutPath} ELSE {})
    \cup {InitPath, CallbackPath, LogoutPath}

\* The session of worker w's request records no backend, or the OIDC backend
\* or a subclass of it.
OIDCSession(w) ==
    \/ BACKEND_SESSION_KEY \notin DOMAIN h[w].session0
    \/ h[w].session0[BACKEND_SESSION_KEY] \in {OIDCAuthenticationBackend, CustomOIDCBackend}

\* The four conditions of the eligibility filter for worker w's request.
Eligible(w, get_only) ==
    /\ (~get_only \/ h[w].request.method = "GET")
    /\ h[w].request.user_auth
    /\ OIDCSession(w)
    /\ h[w].request.path \notin ExemptSet

\* C1: every verdict of is_expired is "expired" (TRUE) exactly when the
\* session's oidc_id_token_expiration, 0 when absent, is not strictly greater
\* than the time read; so absent, zero and expiration = now are all expired.
C1_FreshnessVerdict ==
    \A w \in Workers : \A i \in EventsOf(w, "is_expired") :
        LET e == h[w].events[i]
        IN  /\ e.v <=> ~(Expiration0(w) > e.t)
            /\ "oidc_id_token_expiration" \notin DOMAIN h[w].session0 => e.v
            /\ Expiration0(w) = 0 => e.v
            /\ Expiration0(w) = e.t => e.v

\* C1 witness: is_expired has judged a token whose expiration is the very
\* time read, a positive one.
C1_Witness ==
    \E w \in Workers : \E i \in EventsOf(w, "is_expired") :
        /\ h[w].events[i].t = Expiration0(w)
        /\ Expiration0(w) > 0
        /\ h[w].events[i].v

\* C2: a request to an exempt path is passed through by either middleware:
\* no response, no error, no token request, no logout, no clock read, the
\* session as it was.
C2_ExemptPathUntouched ==
    \A w \in Workers :
        (Handling(w) /\ h[w].request.path \in ExemptSet) =>
            /\ h[w].result = ReturnNone
            /\ \A i \in 1..Len(h[w].events) : h[w].events[i].op = "is_refreshable_url"
            /\ h[w].session = h[w].session0
            /\ h[w].payload = NoneVal

\* C2 witness: RefreshOIDCToken has passed through a request of a logged-in
\* OIDC user with an expired id token to an exempt url given by view name.
C2_Witness ==
    \E w \in Workers :
        /\ Done(w) /\ h[w].mw = "RefreshOIDCToken"
        /\ h[w].request.path = AboutPath /\ AboutPath \in ExemptSet
        /\ h[w].request.user_auth /\ OIDCSession(w)
        /\ Expiration0(w) <= clock
        /\ h[w].result = ReturnNone

\* C3: every verdict of is_refreshable_url is true exactly when the method
\* passes (get_only false or GET), the user is authenticated, the session
\* records no backend or an OIDC one, and the path is not exempt.
C3_EligibilityVerdict ==
    \A w \in Workers : \A i \in EventsOf(w, "is_refreshable_url") :
        LET e == h[w].events[i]
        IN  /\ e.v <=> Eligible(w, e.t = 1)
            /\ ~h[w].request.user_auth => ~e.v
            /\ ~OIDCSession(w) => ~e.v

\* C3 witness: a POST of an authenticated user whose session records no
\* backend was found refreshable.
C3_Witness ==
    \E w \in Workers : \E i \in EventsOf(w, "is_refreshable_url") :
        /\ h[w].events[i].v
        /\ h[w].request.method = "POST"
        /\ BACKEND_SESSION_KEY \notin DOMAIN h[w].session0

\* The request ended with the response of the silent re-authentication.
IsReauthResponse(w) == h[w].result.kind \in {"HttpResponseRedirect", "JsonResponse"}

\* The url that response carries.
ReauthUrl(w) ==
    IF h[w].result.status = 302 THEN h[w].result.location
    ELSE h[w].result.body_refresh_url

\* Nonce usage is enabled: OIDC_USE_NONCE is true or left to its default.
NonceEnabled == "OIDC_USE_NONCE" \notin DOMAIN settings \/ settings["OIDC_USE_NONCE"]

\* url is the authorization endpoint followed by a query string that reads
\* back as response_type=code, the configured client id, prompt=none, one
\* state, and a nonce iff nonce usage is enabled.
AuthorizationUrl(url) ==
    LET q == parse_qsl(QueryOf(url))
    IN  /\ BaseOf(url) = AuthorizationEndpoint
        /\ ValuesOf(q, <<"response_type">>) = {<<"code">>}
        /\ ValuesOf(q, <<"client_id">>) = {ClientId}
        /\ ValuesOf(q, <<"prompt">>) = {<<"none">>}
        /\ Cardinality(ValuesOf(q, <<"state">>)) = 1
        /\ (Cardinality(ValuesOf(q, <<"nonce">>)) = 1) <=> NonceEnabled
        /\ (ValuesOf(q, <<"nonce">>) = {}) <=> ~NonceEnabled

\* is_expired found the id token of worker w's request expired.
FoundExpired(w) ==
    \E i \in EventsOf(w, "is_expired") : Expiration0(w) <= h[w].events[i].t

\* The response of worker w's request is the silent re-authentication's: a
\* 302 to the authorization url, or for an XHR request a 403 with that url
\* in body and header.
ReauthResponseFor(w) ==
    /\ AuthorizationUrl(ReauthUrl(w))
    /\ IF h[w].request.is_ajax
       THEN /\ h[w].result.kind = "JsonResponse"
            /\ h[w].result.status = 403
            /\ h[w].result.header_refresh_url = h[w].result.body_refresh_url
            /\ h[w].result.location = <<>>
       ELSE /\ h[w].result.kind = "HttpResponseRedirect"
            /\ h[w].result.status = 302
            /\ h[w].result.body_refresh_url = <<>>
            /\ h[w].result.header_refresh_url = <<>>

\* C4: SessionRefresh consults is_expired for every eligible GET request, and
\* when the id token is expired it answers with the silent re-authentication
\* response, never with a pass-through.
C4_ExpiredSessionGetsReauth ==
    \A w \in Workers :
        (Done(w) /\ h[w].mw = "SessionRefresh" /\ Eligible(w, TRUE)) =>
            /\ Did(w, "is_expired")
            /\ FoundExpired(w) => ReauthResponseFor(w)

\* C4 witness: SessionRefresh has answered an XHR request with the 403
\* signal, under settings that use a nonce.
C4_Witness ==
    \E w \in Workers :
        /\ Done(w) /\ h[w].mw = "SessionRefresh" /\ Eligible(w, TRUE) /\ FoundExpired(w)
        /\ h[w].request.is_ajax /\ h[w].result.status = 403
        /\ NonceEnabled

\* The state parameter of the url of worker w's response.
StateOf(w) ==
    CHOOSE st \in ValuesOf(parse_qsl(QueryOf(ReauthUrl(w))), <<"state">>) : TRUE

\* The states a session holds, each with its nonce.
StatesOf(session) ==
    IF "oidc_states" \in DOMAIN session THEN session["oidc_states"] ELSE EmptyDict

RefreshSecs ==
    IF "OIDC_RENEW_REFRESH_TOKEN_EXPIRY_SECONDS" \in DOMAIN settings
    THEN settings["OIDC_RENEW_REFRESH_TOKEN_EXPIRY_SECONDS"]
    ELSE 0

IdSecs == settings["OIDC_RENEW_ID_TOKEN_EXPIRY_SECONDS"]

\* OIDC_RENEW_REFRESH_TOKEN is enabled.
RenewEnabled ==
    "OIDC_RENEW_REFRESH_TOKEN" \in DOMAIN settings /\ settings["OIDC_RENEW_REFRESH_TOKEN"]

\* The refresh token of worker w's request was judged, and by the rule of the
\* specification it is expired at the time read.
RefreshFoundExpired(w) ==
    \E i \in EventsOf(w, "_is_refresh_token_expired") :
        RefreshSecs # 0 /\ Expiration0(w) - IdSecs + RefreshSecs <= h[w].events[i].t

\* ... it is not expired at the time read.
RefreshFoundValid(w) ==
    \E i \in EventsOf(w, "_is_refresh_token_expired") :
        RefreshSecs = 0 \/ Expiration0(w) - IdSecs + RefreshSecs > h[w].events[i].t

\* The session the request came with holds a refresh token.
HasRefreshToken0(w) ==
    /\ "oidc_refresh_token" \in DOMAIN h[w].session0
    /\ h[w].session0["oidc_refresh_token"] \notin {NoneVal, ""}

\* RefreshOIDCToken has handled a request the filter lets through whose id
\* token it found expired.
ExchangerActed(w) ==
    /\ Done(w) /\ h[w].mw = "RefreshOIDCToken"
    /\ Eligible(w, FALSE) /\ FoundExpired(w)

\* The first event with operation op comes before the first with operation op2.
Before(w, op, op2) ==
    \E i \in EventsOf(w, op) : \A j \in EventsOf(w, op2) : i < j

\* The keys of the session other than those in ks are as they were.
SameExcept(w, ks) ==
    /\ (DOMAIN h[w].session) \cup ks = (DOMAIN h[w].session0) \cup ks
    /\ \A k \in (DOMAIN h[w].session0) \ ks : h[w].session[k] = h[w].session0[k]

TokenKeys == {"oidc_access_token", "oidc_id_token", "oidc_refresh_token"}

\* C6: RefreshOIDCToken consults is_expired for every eligible request; with
\* the id token expired, a refresh token stored and not found expired it
\* posts that token, and on a 200 answer the session gets a new expiration
\* time and the answer's id, access and refresh token, and the request passes
\* on: no redirect, no 403, no error, no logout.
C6_SuccessfulExchange ==
    \A w \in Workers :
        /\ (Done(w) /\ h[w].mw = "RefreshOIDCToken" /\ Eligible(w, FALSE))
               => Did(w, "is_expired")
        /\ (Handling(w) /\ h[w].mw = "RefreshOIDCToken" /\ Eligible(w, FALSE)
              /\ FoundExpired(w) /\ RefreshFoundValid(w) /\ HasRefreshToken0(w)) =>
               /\ Did(w, "requests.post")
               /\ h[w].payload = h[w].session0["oidc_refresh_token"]
               /\ h[w].status_code = 200 =>
                    /\ h[w].result = ReturnNone
                    /\ \A k \in {"id_token", "access_token", "refresh_token"} :
                          /\ ("oidc_" \o k) \in DOMAIN h[w].session
                          /\ h[w].session["oidc_" \o k] =
                                (IF k \in DOMAIN h[w].token_info
                                 THEN h[w].token_info[k] ELSE NoneVal)
                    /\ "oidc_id_token_expiration" \in DOMAIN h[w].session
                    /\ \E i \in EventsOf(w, "store_expiration_times") :
                          h[w].session["oidc_id_token_expiration"] =
                              h[w].events[i].t + IdSecs
                    /\ SameExcept(w, TokenKeys \cup {"oidc_id_token_expiration"})
                    /\ ~Did(w, "logout") /\ ~Did(w, "raise")

\* C6 witness: a POST has been passed on with the rotated refresh token, the
\* new tokens and a later expiration in its session.
C6_Witness ==
    \E w \in Workers :
        /\ ExchangerActed(w) /\ h[w].status_code = 200
        /\ h[w].request.method = "POST"
        /\ h[w].session0["oidc_refresh_token"] = "rt0"
        /\ h[w].session["oidc_refresh_token"] = "rt1"
        /\ h[w].session["oidc_id_token"] = "id1"
        /\ h[w].session["oidc_id_token_expiration"] > Expiration0(w)

\* C7: with the id token expired and the refresh token not found expired, an
\* absent or empty oidc_refresh_token ends the request with
\* ImproperlyConfigured: nothing is posted, nobody is logged out, the session
\* is as it was; and the refresh token's expiry is judged first, so the error
\* is raised in no other case.
C7_MissingRefreshToken ==
    \A w \in Workers :
        /\ ExchangerActed(w) => Did(w, "_is_refresh_token_expired")
        /\ (ExchangerActed(w) /\ RefreshFoundValid(w) /\ ~HasRefreshToken0(w)) =>
               /\ h[w].result = Raised("ImproperlyConfigured")
               /\ ~Did(w, "requests.post") /\ h[w].payload = NoneVal
               /\ ~Did(w, "logout")
               /\ h[w].session = h[w].session0
        /\ (Handling(w) /\ h[w].result.kind = "ImproperlyConfigured") =>
               /\ ExchangerActed(w) /\ RefreshFoundValid(w) /\ ~HasRefreshToken0(w)

\* C7 witness: a session holding an empty refresh token, under settings that
\* give the refresh token a life time, has met ImproperlyConfigured.
C7_Witness ==
    \E w \in Workers :
        /\ ExchangerActed(w) /\ RefreshSecs # 0 /\ RefreshFoundValid(w)
        /\ "oidc_refresh_token" \in DOMAIN h[w].session0
        /\ h[w].session0["oidc_refresh_token"] = ""
        /\ h[w].result.kind = "ImproperlyConfigured"

\* C8: the exchanger handles expiry when the refresh token is found expired
\* and when the grant is rejected; unless OIDC_RENEW_REFRESH_TOKEN is enabled
\* and the method is GET it then logs the user out and, after that, raises
\* PermissionDenied; PermissionDenied never leaves with the session logged in.
C8_ForcedLogout ==
    \A w \in Workers :
        /\ (ExchangerActed(w) /\ (RefreshFoundExpired(w) \/ h[w].status_code \notin {0, 200}))
               => Did(w, "_handle_refresh_token_expire")
        /\ (Did(w, "_handle_refresh_token_expire")
              /\ ~(RenewEnabled /\ h[w].request.method = "GET")) =>
               /\ h[w].result = Raised("PermissionDenied")
               /\ Did(w, "logout") /\ Before(w, "logout", "raise")
        /\ (Handling(w) /\ h[w].result.kind = "PermissionDenied") =>
               /\ Did(w, "logout") /\ Before(w, "logout", "raise")
               /\ h[w].session = EmptyDict
               /\ ~h[w].user_auth

\* C8 witness: a GET whose grant was rejected, under settings without the
\* fallback, has been logged out and refused.
C8_Witness ==
    \E w \in Workers :
        /\ ExchangerActed(w) /\ h[w].status_code = 503
        /\ h[w].request.method = "GET" /\ ~RenewEnabled
        /\ h[w].session0 # EmptyDict
        /\ h[w].result.kind = "PermissionDenied"

\* C9: when the exchanger handles expiry with OIDC_RENEW_REFRESH_TOKEN enabled
\* and the method GET, the request ends as SessionRefresh ends an expired
\* session: the 302 or, for an XHR request, the 403 with the authorization
\* url, whose state the session holds, and oidc_login_next set; never a
\* pass-through, a logout or an error.
C9_FallbackToReauth ==
    \A w \in Workers :
        (Did(w, "_handle_refresh_token_expire")
           /\ RenewEnabled /\ h[w].request.method = "GET") =>
            /\ Done(w)
            /\ ReauthResponseFor(w)
            /\ StateOf(w) \in DOMAIN StatesOf(h[w].session)
            /\ StateOf(w) \notin DOMAIN StatesOf(h[w].session0)
            /\ "oidc_login_next" \in DOMAIN h[w].session
            /\ h[w].session["oidc_login_next"] =
                   h[w].request.path \o
                   (IF h[w].request.query = <<>> THEN <<>>
                    ELSE <<"?">> \o h[w].request.query)
            /\ ~Did(w, "logout") /\ ~Did(w, "raise")

\* C9 witness: an XHR GET whose grant was rejected has got the 403 signal.
C9_Witness ==
    \E w \in Workers :
        /\ ExchangerActed(w) /\ h[w].status_code = 400
        /\ Did(w, "_handle_refresh_token_expire")
        /\ h[w].request.is_ajax /\ h[w].result.status = 403

\* C10: no error but ImproperlyConfigured and PermissionDenied leaves
\* process_request; a token endpoint that cannot be reached or does not
\* answer in time is handled as a rejection (expiry handling runs).
C10_OnlyFatalErrorsPropagate ==
    \A w \in Workers :
        /\ Did(w, "raise") =>
               h[w].result.kind \in {"ImproperlyConfigured", "PermissionDenied"}
        /\ (Done(w) /\ Did(w, "requests.post") /\ h[w].status_code # 200) =>
               Did(w, "_handle_refresh_token_expire")


\* The expiry verdicts of worker w's request that rest on a read of the clock.
VerdictReads(w) ==
    {i \in 1..Len(h[w].events) :
        /\ h[w].events[i].op \in {"is_expired", "_is_refresh_token_expired"}
        /\ h[w].events[i].t # -1}

\* C11: within the handling of one request at most one expiry verdict reads
\* the wall clock, so every verdict of the request (id token, refresh token,
\* the re-check of the delegated SessionRefresh) is judged against one time.
C11_OneClockReadPerRequest ==
    \A w \in Workers :
        /\ Cardinality(VerdictReads(w)) <= 1
        /\ \A i, j \in VerdictReads(w) : h[w].events[i].t = h[w].events[j].t

\* The keys the silent re-authentication writes.
ReauthKeys == {"oidc_states", "oidc_login_next"}

\* The session's value for key k, None when it does not hold k.
Held(session, k) == IF k \in DOMAIN session THEN session[k] ELSE NoneVal

\* Worker w's request ended with the user logged out and PermissionDenied.
LoggedOutAndForbidden(w) ==
    /\ h[w].result = Raised("PermissionDenied")
    /\ Did(w, "logout") /\ Before(w, "logout", "raise")
    /\ h[w].session = EmptyDict

\* C12: a request whose method is not GET never gets the redirect or the 403
\* signal and never has state, nonce or oidc_login_next written.
\* SessionRefresh passes it through untouched; RefreshOIDCToken ends it as a
\* pass-through, with a refreshed session, with ImproperlyConfigured, or with
\* logout and PermissionDenied, with OIDC_RENEW_REFRESH_TOKEN on or off.
C12_NonGetNeverRedirected ==
    \A w \in Workers :
        (Done(w) /\ h[w].request.method # "GET") =>
            /\ ~IsReauthResponse(w)
            /\ ~Did(w, "add_state_and_nonce_to_session")
            /\ h[w].session # EmptyDict =>
                  \A k \in ReauthKeys : Held(h[w].session, k) = Held(h[w].session0, k)
            /\ h[w].mw = "SessionRefresh" =>
                  /\ h[w].result = ReturnNone
                  /\ h[w].session = h[w].session0
                  /\ \A i \in 1..Len(h[w].events) :
                        h[w].events[i].op = "is_refreshable_url"
            /\ h[w].mw = "RefreshOIDCToken" =>
                  \/ h[w].result = ReturnNone /\ h[w].session = h[w].session0
                  \/ /\ h[w].result = ReturnNone /\ h[w].status_code = 200
                     /\ Did(w, "store_tokens")
                  \/ /\ h[w].result = Raised("ImproperlyConfigured")
                     /\ h[w].session = h[w].session0
                  \/ LoggedOutAndForbidden(w)

\* The token endpoint rejected the grant of worker w's request.
GrantRejected(w) == Done(w) /\ h[w].status_code \notin {0, 200}

\* C13: when the token endpoint answers the grant with a status other than
\* 200, nothing of the answer is stored and no expiration is written; expiry
\* handling runs after the post, and the request ends either with the silent
\* re-authentication's response, the tokens and oidc_id_token_expiration of
\* its session as they were, or with logout and PermissionDenied.
C13_RejectedGrantStoresNothing ==
    \A w \in Workers :
        GrantRejected(w) =>
            /\ ~Did(w, "store_tokens") /\ ~Did(w, "store_expiration_times")
            /\ Did(w, "_handle_refresh_token_expire")
            /\ Before(w, "requests.post", "_handle_refresh_token_expire")
            /\ IF RenewEnabled /\ h[w].request.method = "GET"
               THEN /\ ReauthResponseFor(w)
                    /\ SameExcept(w, ReauthKeys)
                    /\ \A k \in TokenKeys \cup {"oidc_id_token_expiration"} :
                          Held(h[w].session, k) = Held(h[w].session0, k)
               ELSE LoggedOutAndForbidden(w)

\* C13 witness: a page load whose grant was answered 503 has been redirected,
\* its session still holding the tokens it came with.
C13_Witness ==
    \E w \in Workers :
        /\ GrantRejected(w) /\ h[w].status_code = 503
        /\ h[w].token_info = RejectBody
        /\ h[w].result.status = 302
        /\ h[w].session["oidc_refresh_token"] = "rt0"
        /\ h[w].session["oidc_id_token"] = "id0"

\* The verdict logged by the first event of worker w's request with operation op.
FirstVerdict(w, op) ==
    h[w].events[CHOOSE i \in EventsOf(w, op) : \A j \in EventsOf(w, op) : i <= j].v

\* C14: handling one request issues at most one token-endpoint request, and
\* issues it only in RefreshOIDCToken, after the eligibility filter passed,
\* is_expired said expired, the refresh token was judged not expired, with
\* the refresh token the session holds; SessionRefresh issues none.
C14_AtMostOneGrant ==
    \A w \in Workers :
        /\ Cardinality(EventsOf(w, "requests.post")) <= 1
        /\ h[w].mw = "SessionRefresh" =>
              ~Did(w, "requests.post") /\ h[w].payload = NoneVal
        /\ Did(w, "requests.post") =>
              /\ h[w].mw = "RefreshOIDCToken"
              /\ Eligible(w, FALSE) /\ FoundExpired(w)
              /\ RefreshFoundValid(w) /\ HasRefreshToken0(w)
              /\ \A op \in {"is_refreshable_url", "is_expired",
                            "_is_refresh_token_expired"} :
                    Before(w, op, "requests.post")
              /\ FirstVerdict(w, "is_refreshable_url")
              /\ FirstVerdict(w, "is_expired")
              /\ ~FirstVerdict(w, "_is_refresh_token_expired")
              /\ h[w].payload = h[w].session0["oidc_refresh_token"]

\* C14 witness: a POST whose grant was rejected has ended, logged out, after
\* its one token-endpoint request.
C14_Witness ==
    \E w \in Workers :
        /\ GrantRejected(w) /\ h[w].request.method = "POST"
        /\ Cardinality(EventsOf(w, "requests.post")) = 1
        /\ h[w].result.kind = "PermissionDenied"

\* C15: every verdict of _is_refresh_token_expired is "not expired" when
\* OIDC_RENEW_REFRESH_TOKEN_EXPIRY_SECONDS is zero or unset, and otherwise
\* "expired" exactly when oidc_id_token_expiration (0 when absent)
\* - OIDC_RENEW_ID_TOKEN_EXPIRY_SECONDS
\* + OIDC_RENEW_REFRESH_TOKEN_EXPIRY_SECONDS is at most the time read.
C15_RefreshTokenVerdict ==
    \A w \in Workers : \A i \in EventsOf(w, "_is_refresh_token_expired") :
        LET e == h[w].events[i]
        IN  /\ RefreshSecs = 0 => ~e.v
            /\ RefreshSecs # 0 =>
                  (e.v <=> Expiration0(w) - IdSecs + RefreshSecs <= e.t)

\* C15 witness: a refresh token has been judged at the very time of its
\* deadline, under settings that give both tokens a life time, and found
\* expired.
C15_Witness ==
    \E w \in Workers : \E i \in EventsOf(w, "_is_refresh_token_expired") :
        /\ RefreshSecs # 0 /\ IdSecs # 0
        /\ "oidc_id_token_expiration" \in DOMAIN h[w].session0
        /\ Expiration0(w) - IdSecs + RefreshSecs = h[w].events[i].t
        /\ h[w].events[i].v

\* Key k is in both sessions with one value, or in neither.
SameAt(session, session2, k) ==
    /\ (k \in DOMAIN session) <=> (k \in DOMAIN session2)
    /\ k \in DOMAIN session => session[k] = session2[k]

\* C16: the tokens and oidc_id_token_expiration change together or not at
\* all.  A request stores tokens exactly when it stores the expiration, and
\* only on a 200 answer, the expiration first; a request that stores neither
\* leaves the tokens and the expiration as they were, unless it ends in the
\* logout that flushes the session; and the session the next request finds is
\* the one the last request left.
C16_TokensAndExpirationTogether ==
    \A w \in Workers :
        /\ Did(w, "store_tokens") <=> Did(w, "store_expiration_times")
        /\ Did(w, "store_tokens") =>
              /\ h[w].status_code = 200
              /\ Before(w, "store_expiration_times", "store_tokens")
              /\ \E i \in EventsOf(w, "store_expiration_times") :
                    Held(h[w].session, "oidc_id_token_expiration") =
                        h[w].events[i].t + IdSecs
        /\ (Handling(w) /\ ~Did(w, "store_tokens") /\ ~Did(w, "logout")) =>
              \A k \in TokenKeys \cup {"oidc_id_token_expiration"} :
                  SameAt(h[w].session, h[w].session0, k)
        /\ Did(w, "logout") => ~Did(w, "store_tokens")
        /\ Done(w) => store = h[w].session

\* C16 witness: an exchange the provider answered without rotating the
\* refresh token has replaced the id token and moved the expiration.
C16_Witness ==
    \E w \in Workers :
        /\ Done(w) /\ h[w].status_code = 200
        /\ "refresh_token" \notin DOMAIN h[w].token_info
        /\ h[w].session0["oidc_id_token"] = "id0"
        /\ store["oidc_id_token"] = "id1"
        /\ store["oidc_id_token_expiration"] # Expiration0(w)

\* RefreshOIDCToken handles or has handled a request the filter lets through
\* whose id token it found expired.
ExchangerActing(w) ==
    /\ Handling(w) /\ h[w].mw = "RefreshOIDCToken"
    /\ Eligible(w, FALSE) /\ FoundExpired(w)

\* The refresh token's life time is set and no longer than the id token's.
RefreshNotLongerThanId == RefreshSecs # 0 /\ RefreshSecs <= IdSecs

\* The session came without oidc_id_token_expiration and the refresh token
\* was judged at a time not before refresh seconds - id seconds.
NoExpirationPastDeadline(w) ==
    /\ RefreshSecs # 0
    /\ "oidc_id_token_expiration" \notin DOMAIN h[w].session0
    /\ \E i \in EventsOf(w, "_is_refresh_token_expired") :
          RefreshSecs - IdSecs <= h[w].events[i].t

\* C18: when OIDC_RENEW_REFRESH_TOKEN_EXPIRY_SECONDS is set, not zero and at
\* most OIDC_RENEW_ID_TOKEN_EXPIRY_SECONDS, every eligible request whose id
\* token is expired finds the refresh token expired too: RefreshOIDCToken
\* posts nothing and the request ends in expiry handling, with the silent
\* re-authentication response or with logout and PermissionDenied.  The same
\* for a session without oidc_id_token_expiration judged at a time not
\* before refresh seconds - id seconds.
C18_ShortRefreshLifeNeverExchanges ==
    \A w \in Workers :
        (ExchangerActing(w)
           /\ (RefreshNotLongerThanId \/ NoExpirationPastDeadline(w))) =>
            /\ Done(w)
            /\ \A i \in EventsOf(w, "_is_refresh_token_expired") : h[w].events[i].v
            /\ ~Did(w, "requests.post") /\ h[w].payload = NoneVal
            /\ Did(w, "_handle_refresh_token_expire")
            /\ IF RenewEnabled /\ h[w].request.method = "GET"
               THEN ReauthResponseFor(w)
               ELSE LoggedOutAndForbidden(w)

\* C18 witness: under equal life times a POST with a stored refresh token and
\* an id token expired just now has been logged out without a grant.
C18_Witness ==
    \E w \in Workers :
        /\ ExchangerActing(w) /\ RefreshNotLongerThanId
        /\ HasRefreshToken0(w)
        /\ Expiration0(w) > 0
        /\ h[w].request.method = "POST"
        /\ ~Did(w, "requests.post")
        /\ h[w].result.kind = "PermissionDenied"

\* The session worker w's request came with is one a successful exchange
\* left: it holds the id token of a 200 answer.
AfterSuccessfulExchange(w) ==
    \E token_info \in TokenBodies :
        Held(h[w].session0, "oidc_id_token") = token_info["id_token"]

\* C19: a successful exchange leaves a usable refresh token.  A request that
\* comes with the session a successful exchange left, rotated or not, passes
\* the filter, finds the id token expired and the refresh token not expired,
\* issues a grant and does not end with ImproperlyConfigured.
C19_ExchangeKeepsRefreshToken ==
    \A w \in Workers :
        (ExchangerActing(w) /\ RefreshFoundValid(w) /\ AfterSuccessfulExchange(w)) =>
            /\ Did(w, "requests.post")
            /\ h[w].result.kind # "ImproperlyConfigured"

\* The time worker w's request read last.
LastRead(w) ==
    LET reads == EventsOf(w, "time")
    IN  h[w].events[CHOOSE i \in reads : \A j \in reads : j <= i].t

\* Worker w2 takes the request worker w is handling and gets as far as w:
\* blocked in a grant that carries the refresh token w's grant carries.
SameGrantAgain(w2, w) ==
    /\ RefreshOIDCTokenRequest(w2, {h[w].request})
    /\ h'[w2].result = Posting
    /\ h'[w2].payload = h[w].payload

\* C17: requests of one session are not coordinated.  A grant in flight
\* carries the refresh token of the session as its request found it, whatever
\* other requests stored since; and while a worker is blocked in its grant,
\* with the session and the clock as its request left them, another worker
\* can take the same request and issue a grant with the same refresh token.
C17_NoRefreshCoordination ==
    \A w \in Workers :
        h[w].result = Posting =>
            /\ h[w].payload = h[w].session0["oidc_refresh_token"]
            /\ \A w2 \in Workers \ {w} :
                  (h[w2].result # Posting /\ store = h[w].session0
                     /\ clock = LastRead(w)) =>
                      ENABLED SameGrantAgain(w2, w)

\* C17 witness: two requests have each sent the stored refresh token; the
\* first got a rotated one, the second one is still waiting with the old.
C17_Witness ==
    \E w, w2 \in Workers :
        /\ w # w2
        /\ Done(w) /\ h[w].status_code = 200 /\ h[w].payload = "rt0"
        /\ store["oidc_refresh_token"] = "rt1"
        /\ h[w2].result = Posting /\ h[w2].payload = "rt0"

============================================================================
